---- MODULE Spec2Model ----
(***************************************************************************)
(* Raven dev server (cli/raven_dev.py, Examples/TodoApp/raven-dev.py):     *)
(* the build coordinator RavenDevServer.build_wasm run by concurrent       *)
(* threads, the status endpoint, the source watcher and the hot-reload     *)
(* poller injected into index.html.                                        *)
(*                                                                         *)
(* build_wasm is modelled statement by statement: Python threads may be    *)
(* switched between any two statements, and the method takes no lock.      *)
(***************************************************************************)
EXTENDS Integers, FiniteSets, Sequences, Bags, TLC

\* ------------------------------------------------------------------ bounds
\* Distinct artifact contents the build command can produce.
MaxContent == 2
\* Latest instant, in seconds after the watcher's clock started, at which a watch event is delivered.
MaxTime == 2
\* The same, in the runs that follow a burst of requests.
MaxBurstTime == 3
\* The same, in the runs that follow the browser page as well.
MaxPageTime == 1
\* The same, in the runs that follow the browser page and overlapping requests.
MaxPageRaceTime == 2
\* Reloads of the browser page that are followed.
MaxReloads == 1
\* Latest instant, in seconds, of a watch event in the runs that follow the commands.
MaxCliTime == 1
\* Lines carrying the error marker in the captured output of a failed build.
MaxErrorLines == 11
\* Granularity, in milliseconds, of the clock readings in the runs that follow the watcher.
ClockStepMs == 200
\* Clock readings, after the first, in the runs that follow the watcher.
MaxWatchSteps == 6
\* Length, in milliseconds, of the window in which a burst of watch events arrives.
BurstWindowMs == 200
\* Calls of get_wasm_hash in the runs that follow the hasher.
MaxHashCalls == 3
\* Length, in tokens, of an index.html given to inject_hot_reload.
MaxDocLen == 3
\* Server starts on the same public directory.
MaxStarts == 2

\* --------------------------------------------------------------- constants
\* SourceWatcher.debounce_seconds
debounce_seconds == 1
\* errors[:5] in build_wasm, errors[:10] in build_command
DevErrorLimit == 5
BuildErrorLimit == 10

\* ------------------------------------------------------------------ values
\* Python None / JavaScript null, as a fingerprint value.
None == <<"None">>
\* A file that does not exist.
Missing == <<>>
\* The content of a file: Bytes(0) is the empty file an open(..., 'wb') leaves.
Bytes(i) == <<i>>
Empty == Bytes(0)
Contents == {Bytes(i) : i \in 1..MaxContent}

\* hashlib.md5(content).hexdigest(): a digest, one per content.
md5(content) == <<"md5", content[1]>>

VARIABLES
    building,        \* self.building
    build_queued,    \* self.build_queued
    last_wasm_hash,  \* self.last_wasm_hash
    wasm_src,        \* the file config['wasm_src'] (build output)
    wasm_file,       \* the file config['wasm_file'] (served artifact)
    threads,         \* bag of the threads inside build_wasm: pc, kind, the local new_hash,
                     \* the return value ret, and history (first, stage, content)
    serverUp,        \* dev_command has started the observer and the HTTP server
    initial,         \* what the initial build returned: "skipped", "pending", "ok", "failed"
    proc,            \* the command's process: its position pc, its environment env, the
                     \* roots the observer watches, its exit code, and history (failure)
    last_build,      \* SourceWatcher.last_build, in milliseconds
    burst,           \* history: the source-file events of the current window, and the
                     \* instant of the last accepted event
    lastHash,        \* the page's script variable lastHash
    interval,        \* the page's timer setInterval(checkForUpdates, 2000) is registered
    uncaught,        \* a rejection of the page's fetch chain reached no handler
    pollFailed,      \* history: the fetch of the page's latest tick failed
    response,        \* the latest response a server sent for a file, a page or an error
    polled,          \* history: the page has completed a successful poll
    baseline,        \* history: the fingerprint seen by the page's first successful poll
    reloads,         \* history: number of window.location.reload() calls
    builds,          \* history: number of build commands started
    scen,            \* history: phase of the first burst of requests
    unserved,        \* history: a call was made and no build command has started since
    copied,          \* history: contents whose copy into the served directory completed
    stored,          \* history: some build cycle has executed line 124
    h1               \* history: the fingerprint stored by the initial build

coordVars == <<building, build_queued, last_wasm_hash>>
fsVars == <<wasm_src, wasm_file>>
mainVars == <<serverUp, initial, proc>>
watchVars == <<last_build, burst>>
clientVars == <<lastHash, interval, uncaught, pollFailed, response, polled, baseline, reloads>>
histVars == <<builds, scen, unserved, copied, stored, h1>>
vars == <<coordVars, fsVars, threads, mainVars, watchVars, clientVars, histVars>>

\* ----------------------------------------------------------------- threads
\* stage: how far the cycle got ("none", "exit0", "found", "copied"); content: what it copied
Thread(pc, kind) ==
    [pc |-> pc, kind |-> kind, new_hash |-> None, ret |-> FALSE,
     first |-> FALSE, stage |-> "none", content |-> Missing]
Live == BagToSet(threads)
Goto(r, r2) == threads' = (threads (-) SetToBag({r})) (+) SetToBag({r2})
At(r, pc) == [r EXCEPT !.pc = pc]
\* ------------------------------------------------------------ the commands
\* The watch roots: config['source_dirs'] of an example app, SOURCE_DIRS of TodoApp
source_dirs == {"Sources", "../../Sources"}
\* What a command finds: Package.swift, the SDK in `swift sdk list`, the public
\* directory, the watch roots that exist, and the flag --no-initial-build.
Env(marker, sdk, public, exists, no_initial_build) ==
    [marker |-> marker, sdk |-> sdk, public |-> public, exists |-> exists,
     no_initial_build |-> no_initial_build]
\* What a failed build prints: the error lines shown, and <<k>> if a line says that
\* k more were left out.
NoOutput == [shown |-> <<>>, more |-> <<>>]
\* A process of command cmd at position pc; exit is <<>> while it runs and <<code>>
\* once it has exited; failure is the history of what went wrong; stderr is what was
\* captured from a failed build command and out what was printed of it.
Proc(cmd, pc, env) ==
    [cmd |-> cmd, pc |-> pc, env |-> env, watched |-> {}, observer |-> FALSE,
     exit |-> <<>>, failure |-> "none", verbose |-> FALSE, stderr |-> <<>>,
     out |-> NoOutput]
\* sys.exit(code), or the interpreter ending on an uncaught exception (code 1)
Exit(p, code, failure) == [p EXCEPT !.pc = "exited", !.exit = <<code>>, !.failure = failure]

\* StartLoop with a fault: every configured root is scheduled, and the observer
\* fails to start on a root that does not exist.
StartLoopAllRoots(p) ==
    IF source_dirs \subseteq p.env.exists
      THEN [p EXCEPT !.pc = "serving", !.watched = source_dirs, !.observer = TRUE]
      ELSE Exit(p, 1, "watch")

\* dev_command lines 262-287: schedule the roots that exist, start the observer,
\* run the server
StartLoop(p) ==
    [p EXCEPT !.pc = "serving",
              !.watched = {source_dir \in source_dirs : source_dir \in p.env.exists},
              !.observer = TRUE]

\* The thread leaves build_wasm; the main thread goes on to start the observer and the server.
Return(r, bag) ==
    /\ threads' = bag (-) SetToBag({r})
    /\ IF r.kind = "main"
         THEN /\ serverUp' = (StartLoop(proc).pc = "serving")
              /\ initial' = IF r.ret THEN "ok" ELSE "failed"
              /\ proc' = StartLoop(proc)
         ELSE UNCHANGED mainVars

\* get_wasm_hash with a fault: no exists() check, open() raises for a missing file.
get_wasm_hashUnchecked == IF wasm_file = Missing THEN <<"FileNotFoundError">> ELSE md5(wasm_file)

\* get_wasm_hash (lines 65-72): None for a missing file, else the digest of its bytes
get_wasm_hash == IF wasm_file = Missing THEN None ELSE md5(wasm_file)

\* InitServer with a fault: the constructor derives the fingerprint from the served artifact.
InitServerDerived ==
    /\ building = FALSE
    /\ build_queued = FALSE
    /\ last_wasm_hash = get_wasm_hash

\* RavenDevServer.__init__ (lines 26-34)
InitServer ==
    /\ building = FALSE
    /\ build_queued = FALSE
    /\ last_wasm_hash = None

\* time.time() returns seconds as a float; the model's clock counts milliseconds.
Seconds(s) == s * 1000
\* No watch event has been delivered; on: the run records the watcher's events.
NoEvents(on) ==
    [on |-> on, clock |-> 0, t0 |-> 0, open |-> FALSE, n |-> 0, seen |-> {}, accepted |-> 0,
     firstAccepted |-> FALSE, last_accept |-> 0]

\* SourceWatcher.__init__; the clock starts late enough for the first event to pass.
StartTime == Seconds(debounce_seconds)
InitWatcher == last_build = 0

\* A response: its MIME type and its headers, a function on the names that are set.
Response(mimetype, headers) == [mimetype |-> mimetype, headers |-> headers]
NoHeaders == [name \in {} |-> ""]
NoResponse == Response("", NoHeaders)

\* The page's script as loaded (line 193, 210), and the histories
InitPage(followed) ==
    /\ lastHash = None
    /\ interval = TRUE
    /\ uncaught = FALSE
    /\ pollFailed = FALSE
    /\ response = NoResponse
    /\ polled = FALSE
    /\ baseline = None
    /\ reloads = 0
    /\ builds = 0
    /\ scen = "pre"
    /\ unserved = FALSE
    /\ copied = {}
    /\ stored = FALSE
    /\ h1 = None
    /\ burst = NoEvents(followed)

\* The served directory may hold an artifact of an earlier run, the build directory
\* is clean.
InitState(followed) ==
    /\ wasm_src = Missing
    /\ wasm_file \in {Missing} \cup Contents
    /\ InitServer
    /\ InitWatcher
    /\ InitPage(followed)

\* dev_command at its initial build (lines 256-260), every setup check passed and
\* every watch root present
InitRun(followed) ==
    /\ InitState(followed)
    /\ \/ /\ threads = SetToBag({Thread("l76", "main")})
          /\ serverUp = FALSE
          /\ initial = "pending"
          /\ proc = Proc("dev", "building", Env(TRUE, TRUE, TRUE, source_dirs, FALSE))
       \/ /\ threads = EmptyBag
          /\ serverUp = TRUE
          /\ initial = "skipped"
          /\ proc = StartLoop(Proc("dev", "build", Env(TRUE, TRUE, TRUE, source_dirs, TRUE)))

Init == InitRun(FALSE)

\* ------------------------------------------------------------- build_wasm
\* History of the first burst: the first root call that sees the coordinator idle
\* opens it, a root call that sees it idle or arrives after it closed voids it.
ScenAfterCheck(r) ==
    IF r.kind = "queued" THEN scen
    ELSE IF scen = "pre" /\ ~building THEN "flight"
    ELSE IF scen = "flight" /\ building THEN "flight"
    ELSE "void"

\* line 76: if self.building
Check76(r) ==
    /\ r.pc = "l76"
    /\ Goto(r, [At(r, IF building THEN "l77" ELSE "l80")
                  EXCEPT !.first = (r.kind # "queued" /\ scen = "pre" /\ ~building)])
    /\ scen' = ScenAfterCheck(r)
    /\ unserved' = TRUE
    /\ UNCHANGED <<coordVars, fsVars, mainVars, watchVars, clientVars, builds, copied, stored, h1>>

\* Queue77 with a fault: the call waits until no build command is executing.
Queue77Waits(r) ==
    /\ r.pc = "l77"
    /\ \A other \in Live : other.pc # "run"
    /\ build_queued' = TRUE
    /\ Return(r, threads)
    /\ UNCHANGED <<building, last_wasm_hash, fsVars, watchVars, clientVars, histVars>>

\* lines 77-78: self.build_queued = True; return
Queue77(r) ==
    /\ r.pc = "l77"
    /\ build_queued' = TRUE
    /\ Return(r, threads)
    /\ UNCHANGED <<building, last_wasm_hash, fsVars, watchVars, clientVars, histVars>>

\* Start80 with a fault: a starting build forgets the stored fingerprint.
Start80Resets(r) ==
    /\ r.pc = "l80"
    /\ building' = TRUE
    /\ last_wasm_hash' = None
    /\ Goto(r, At(r, "run"))
    /\ builds' = builds + 1
    /\ unserved' = FALSE
    /\ UNCHANGED <<build_queued, fsVars, mainVars, watchVars, clientVars,
                   scen, copied, stored, h1>>

\* lines 80-93: self.building = True; subprocess.run([...]) starts the build command
Start80(r) ==
    /\ r.pc = "l80"
    /\ building' = TRUE
    /\ Goto(r, At(r, "run"))
    /\ builds' = builds + 1
    /\ unserved' = FALSE
    /\ UNCHANGED <<build_queued, last_wasm_hash, fsVars, mainVars, watchVars, clientVars,
                   scen, copied, stored, h1>>

\* lines 88-97: the build command exits 0; it has written its output, or has not.
CmdOk(r) ==
    /\ r.pc = "run"
    /\ wasm_src' \in Contents \cup {wasm_src}
    /\ Goto(r, [At(r, "l111") EXCEPT !.stage = "exit0"])
    /\ UNCHANGED <<coordVars, wasm_file, mainVars, watchVars, clientVars, histVars>>

\* CmdFail with a fault: the failure path refreshes the fingerprint from the served file.
CmdFailStores(r) ==
    /\ r.pc = "run"
    /\ last_wasm_hash' = get_wasm_hash
    /\ Goto(r, At(r, "l134"))
    /\ UNCHANGED <<building, build_queued, fsVars, mainVars, watchVars, clientVars, histVars>>

\* CmdFail with a fault: a failed command does not end the sequence, the cycle goes
\* on to copy whatever artifact an earlier build left.
CmdFailCopies(r) ==
    /\ r.pc = "run"
    /\ Goto(r, At(r, IF wasm_src = Missing THEN "l134" ELSE "l116"))
    /\ UNCHANGED <<coordVars, fsVars, mainVars, watchVars, clientVars, histVars>>

\* lines 97-105, 127-132: non-zero exit, TimeoutExpired, or subprocess.run raises
CmdFail(r) ==
    /\ r.pc = "run"
    /\ Goto(r, At(r, "l134"))
    /\ UNCHANGED <<coordVars, fsVars, mainVars, watchVars, clientVars, histVars>>

\* lines 111-113: if not wasm_src.exists(): return False
Exists111(r) ==
    /\ r.pc = "l111"
    /\ Goto(r, IF wasm_src = Missing THEN At(r, "l134")
                ELSE [At(r, "l116") EXCEPT !.stage = "found"])
    /\ UNCHANGED <<coordVars, fsVars, mainVars, watchVars, clientVars, histVars>>

\* line 116: shutil.copy2 opens the destination for writing, which truncates it
CopyOpen(r) ==
    /\ r.pc = "l116"
    /\ wasm_src # Missing
    /\ wasm_file' = Empty
    /\ Goto(r, At(r, "copying"))
    /\ UNCHANGED <<coordVars, wasm_src, mainVars, watchVars, clientVars, histVars>>

\* line 116: shutil.copy2 writes the source's bytes and returns
CopyWrite(r) ==
    /\ r.pc = "copying"
    /\ wasm_src # Missing
    /\ wasm_file' = wasm_src
    /\ copied' = copied \cup {wasm_src}
    /\ Goto(r, [At(r, "l118") EXCEPT !.stage = "copied", !.content = wasm_src])
    /\ UNCHANGED <<coordVars, wasm_src, mainVars, watchVars, clientVars,
                   builds, scen, unserved, stored, h1>>

\* line 116, 130-132: shutil.copy2 raises (OSError) before or while writing
CopyFail(r) ==
    /\ r.pc \in {"l116", "copying"}
    /\ Goto(r, At(r, "l134"))
    /\ UNCHANGED <<coordVars, fsVars, mainVars, watchVars, clientVars, histVars>>

\* lines 118-122: new_hash = self.get_wasm_hash(); wasm_dst.stat()
Hash118(r) ==
    /\ r.pc = "l118"
    /\ get_wasm_hash # None
    /\ Goto(r, [At(r, "l124") EXCEPT !.new_hash = get_wasm_hash])
    /\ UNCHANGED <<coordVars, fsVars, mainVars, watchVars, clientVars, histVars>>

\* lines 118-122, 130-132: open, read or stat raises (OSError)
HashFail(r) ==
    /\ r.pc = "l118"
    /\ Goto(r, At(r, "l134"))
    /\ UNCHANGED <<coordVars, fsVars, mainVars, watchVars, clientVars, histVars>>

\* lines 124-125: self.last_wasm_hash = new_hash; return True
Store124(r) ==
    /\ r.pc = "l124"
    /\ last_wasm_hash' = r.new_hash
    /\ Goto(r, [At(r, "l134") EXCEPT !.ret = TRUE, !.new_hash = None])
    /\ stored' = TRUE
    /\ h1' = IF r.kind = "main" THEN r.new_hash ELSE h1
    /\ UNCHANGED <<building, build_queued, fsVars, mainVars, watchVars, clientVars,
                   builds, scen, unserved, copied>>

\* Finally134 with a fault: the flag is cleared on the success path only.
Finally134OnSuccess(r) ==
    /\ r.pc = "l134"
    /\ building' = IF r.ret THEN FALSE ELSE building
    /\ Goto(r, [At(r, "l136") EXCEPT !.first = FALSE, !.stage = "none", !.content = Missing])
    /\ scen' = IF r.first /\ scen = "flight" THEN "post" ELSE scen
    /\ UNCHANGED <<build_queued, last_wasm_hash, fsVars, mainVars, watchVars, clientVars,
                   builds, unserved, copied, stored, h1>>

\* line 134 (finally): self.building = False
Finally134(r) ==
    /\ r.pc = "l134"
    /\ building' = FALSE
    /\ Goto(r, [At(r, "l136") EXCEPT !.first = FALSE, !.stage = "none", !.content = Missing])
    /\ scen' = IF r.first /\ scen = "flight" THEN "post" ELSE scen
    /\ UNCHANGED <<build_queued, last_wasm_hash, fsVars, mainVars, watchVars, clientVars,
                   builds, unserved, copied, stored, h1>>

\* line 136: if self.build_queued (else the method returns)
Check136(r) ==
    /\ r.pc = "l136"
    /\ IF build_queued
         THEN Goto(r, At(r, "l137")) /\ UNCHANGED mainVars
         ELSE Return(r, threads)
    /\ UNCHANGED <<coordVars, fsVars, watchVars, clientVars, histVars>>

\* line 137: self.build_queued = False
Clear137(r) ==
    /\ r.pc = "l137"
    /\ build_queued' = FALSE
    /\ Goto(r, At(r, "l139"))
    /\ UNCHANGED <<building, last_wasm_hash, fsVars, mainVars, watchVars, clientVars, histVars>>

\* line 139: threading.Thread(target=self.build_wasm, daemon=True).start(); return
Spawn139(r) ==
    /\ r.pc = "l139"
    /\ Return(r, threads (+) SetToBag({Thread("l76", "queued")}))
    /\ UNCHANGED <<coordVars, fsVars, watchVars, clientVars, histVars>>

\* One statement of build_wasm by thread r
build_wasm(r) ==
    \/ Check76(r)
    \/ Queue77(r)
    \/ Start80(r)
    \/ CmdOk(r)
    \/ CmdFail(r)
    \/ Exists111(r)
    \/ CopyOpen(r)
    \/ CopyWrite(r)
    \/ CopyFail(r)
    \/ Hash118(r)
    \/ HashFail(r)
    \/ Store124(r)
    \/ Finally134(r)
    \/ Check136(r)
    \/ Clear137(r)
    \/ Spawn139(r)

\* ----------------------------------------------------------- SourceWatcher
dotSwift == <<".", "s", "w", "i", "f", "t">>
\* str.endswith
EndsWith(s, suffix) ==
    /\ Len(s) >= Len(suffix)
    /\ SubSeq(s, Len(s) - Len(suffix) + 1, Len(s)) = suffix
\* the operator `in` on strings
Contains(s, sub) ==
    \E i \in 1..(Len(s) - Len(sub) + 1) : SubSeq(s, i, i + Len(sub) - 1) = sub

\* Paths the observer delivers: the watched root followed by the file's relative path.
\* /a/S/M.swift
PathMain == <<"/", "a", "/", "S", "/", "M">> \o dotSwift
\* /a/S/.build/M.swift
PathBuildDir == <<"/", "a", "/", "S", "/", ".", "b", "u", "i", "l", "d", "/", "M">> \o dotSwift
\* /a/S/<c>.swift
SourceFile(c) == <<"/", "a", "/", "S", "/", c>> \o dotSwift
FileNames == {"M", "N", "O", "P", "Q"}
\* S/M.swift: the TodoApp script schedules the relative roots of SOURCE_DIRS
PathRelative == <<"S", "/", "M">> \o dotSwift
\* /a/../S/M.swift: a root such as '../../Sources' is joined to the app root as it is
PathParentRoot == <<"/", "a", "/", ".", ".", "/", "S", "/", "M">> \o dotSwift
\* /a/S/.M.swift
PathHiddenFile == <<"/", "a", "/", "S", "/", ".", "M">> \o dotSwift
\* /a/S/M.txt
PathNotSource == <<"/", "a", "/", "S", "/", "M", ".", "t", "x", "t">>
Event(path, dir) == [src_path |-> path, is_directory |-> dir]
\* The events of the runs that follow the watcher
EventsWatch ==
    {Event(SourceFile(c), FALSE) : c \in FileNames}
        \cup {Event(path, FALSE) :
                 path \in {PathRelative, PathParentRoot, PathHiddenFile, PathNotSource, PathBuildDir}}
        \cup {Event(PathMain, TRUE)}
Events == {Event(PathMain, FALSE), Event(PathMain, TRUE), Event(PathBuildDir, FALSE)}
\* time.time(): not before the watcher's last reading, capped; read at whole seconds
Times(from, max) == {t \in {Seconds(k) : k \in 1..max} : t >= from}

\* Clock readings of the runs that follow the watcher: a grid of ClockStepMs
WatchTimes(from) ==
    {t \in {StartTime + k * ClockStepMs : k \in 0..MaxWatchSteps} : t >= from}

\* The segments of a path: the pieces between its separators.
RECURSIVE Segments(_)
Segments(path) ==
    IF path = <<>> THEN << <<>> >>
    ELSE LET rest == Segments(Tail(path))
         IN  IF Head(path) = "/" THEN << <<>> >> \o rest
             ELSE << <<Head(path)>> \o Head(rest) >> \o Tail(rest)
HasDotSegment(path) ==
    LET segs == Segments(path)
    IN  \E i \in 1..Len(segs) : segs[i] # <<>> /\ Head(segs[i]) = "."
\* A source file outside every hidden or build-output directory.
ValidSource(event) ==
    /\ ~event.is_directory
    /\ EndsWith(event.src_path, dotSwift)
    /\ ~HasDotSegment(event.src_path)

\* History: the event is delivered at instant now, and accepted or not. A source-file
\* event later than BurstWindowMs after the window's first event opens a new window.
InWindow(now) == burst.n > 0 /\ now - burst.t0 <= BurstWindowMs
Heard(event, now, now2, accept) ==
    IF ~burst.on THEN burst
    ELSE LET b == IF accept THEN [burst EXCEPT !.clock = now2, !.last_accept = now]
                  ELSE [burst EXCEPT !.clock = now]
         IN  IF ~ValidSource(event) THEN b
             ELSE IF InWindow(now)
               THEN [b EXCEPT !.n = @ + 1,
                              !.seen = @ \cup {event.src_path},
                              !.accepted = @ + (IF accept THEN 1 ELSE 0)]
             ELSE [b EXCEPT !.t0 = now,
                            !.open = (now - last_build >= Seconds(debounce_seconds)),
                            !.n = 1,
                            !.seen = {event.src_path},
                            !.accepted = IF accept THEN 1 ELSE 0,
                            !.firstAccepted = accept]

\* should_trigger_build with a fault: the window is compared in the clock's unit.
should_trigger_buildUnits(path, now) ==
    IF ~EndsWith(path, dotSwift) THEN FALSE
    ELSE IF Contains(path, <<"/", ".", "b", "u", "i", "l", "d", "/">>) \/ Contains(path, <<"/", ".">>)
      THEN FALSE
    ELSE IF now - last_build < debounce_seconds THEN FALSE
    ELSE TRUE

\* should_trigger_build with a fault: only the build-output directory is filtered.
should_trigger_buildNoHidden(path, now) ==
    IF ~EndsWith(path, dotSwift) THEN FALSE
    ELSE IF Contains(path, <<"/", ".", "b", "u", "i", "l", "d", "/">>) THEN FALSE
    ELSE IF now - last_build < Seconds(debounce_seconds) THEN FALSE
    ELSE TRUE

\* should_trigger_build (lines 155-165), with `now` the value time.time() returns
should_trigger_build(path, now) ==
    IF ~EndsWith(path, dotSwift) THEN FALSE
    ELSE IF Contains(path, <<"/", ".", "b", "u", "i", "l", "d", "/">>) \/ Contains(path, <<"/", ".">>)
      THEN FALSE
    ELSE IF now - last_build < Seconds(debounce_seconds) THEN FALSE
    ELSE TRUE

\* on_modified with a fault: every file event restarts the window.
on_modifiedStampsRejected(event, now, now2) ==
    /\ serverUp
    /\ IF ~event.is_directory /\ should_trigger_build(event.src_path, now)
         THEN /\ last_build' = now2
              /\ threads' = threads (+) SetToBag({Thread("l76", "watcher")})
              /\ burst' = Heard(event, now, now2, TRUE)
              /\ UNCHANGED <<coordVars, fsVars, mainVars, clientVars, histVars>>
         ELSE /\ last_build' = IF event.is_directory THEN last_build ELSE now2
              /\ burst' = Heard(event, now, now2, FALSE)
              /\ UNCHANGED <<coordVars, fsVars, threads, mainVars, clientVars, histVars>>

\* on_modified with a fault: the handler calls build_wasm itself, so no event is
\* handled until the build it started has returned.
on_modifiedSynchronous(event, now, now2) ==
    /\ serverUp
    /\ Live = {}
    /\ IF ~event.is_directory /\ should_trigger_build(event.src_path, now)
         THEN /\ last_build' = now2
              /\ threads' = threads (+) SetToBag({Thread("l76", "watcher")})
              /\ burst' = Heard(event, now, now2, TRUE)
              /\ UNCHANGED <<coordVars, fsVars, mainVars, clientVars, histVars>>
         ELSE /\ burst' = Heard(event, now, now, FALSE)
              /\ UNCHANGED <<coordVars, fsVars, threads, mainVars, last_build,
                             clientVars, histVars>>

\* on_modified (lines 167-174); now and now2 are the two readings of time.time()
on_modified(event, now, now2) ==
    /\ serverUp
    /\ IF ~event.is_directory /\ should_trigger_build(event.src_path, now)
         THEN /\ last_build' = now2
              /\ threads' = threads (+) SetToBag({Thread("l76", "watcher")})
              /\ burst' = Heard(event, now, now2, TRUE)
              /\ UNCHANGED <<coordVars, fsVars, mainVars, clientVars, histVars>>
         ELSE /\ burst' = Heard(event, now, now, FALSE)
              /\ UNCHANGED <<coordVars, fsVars, threads, mainVars, last_build,
                             clientVars, histVars>>

\* on_created with a fault: a new source file is built at once, whatever the time
\* since the last accepted event.
on_createdNoGate(event, now, now2) ==
    /\ serverUp
    /\ IF ~event.is_directory /\ should_trigger_build(event.src_path, last_build + Seconds(debounce_seconds))
         THEN /\ last_build' = now2
              /\ threads' = threads (+) SetToBag({Thread("l76", "watcher")})
              /\ burst' = Heard(event, now, now2, TRUE)
              /\ UNCHANGED <<coordVars, fsVars, mainVars, clientVars, histVars>>
         ELSE /\ burst' = Heard(event, now, now, FALSE)
              /\ UNCHANGED <<coordVars, fsVars, threads, mainVars, last_build,
                             clientVars, histVars>>

\* on_created (lines 176-177)
on_created(event, now, now2) == on_modified(event, now, now2)

\* ---------------------------------------------------------- status, poller
\* /api/status (lines 48-54), without the timestamp
status == [building |-> building, wasm_hash |-> last_wasm_hash]

\* checkForUpdates with a fault: no baseline step, every response is compared with lastHash.
checkForUpdatesNoBaseline(wasm_hash) ==
    IF wasm_hash # None /\ wasm_hash # lastHash
      THEN /\ reloads < MaxReloads
           /\ reloads' = reloads + 1
           /\ lastHash' = None
           /\ polled' = FALSE
           /\ baseline' = None
      ELSE /\ polled' = TRUE
           /\ baseline' = IF polled THEN baseline ELSE wasm_hash
           /\ UNCHANGED <<lastHash, reloads>>

\* checkForUpdates' then-handler (lines 197-207) on a response carrying wasm_hash
checkForUpdates(wasm_hash) ==
    IF lastHash = None
      THEN /\ lastHash' = wasm_hash
           /\ polled' = TRUE
           /\ baseline' = IF polled THEN baseline ELSE wasm_hash
           /\ UNCHANGED reloads
    ELSE IF wasm_hash # None /\ wasm_hash # lastHash
      THEN \* window.location.reload(): the page and its script start again
           /\ reloads < MaxReloads
           /\ reloads' = reloads + 1
           /\ lastHash' = None
           /\ polled' = FALSE
           /\ baseline' = None
      ELSE /\ polled' = TRUE
           /\ UNCHANGED <<lastHash, baseline, reloads>>

\* Poll with a fault: a status query made while no fingerprint is stored starts a build.
PollStartsBuild ==
    /\ serverUp
    /\ interval
    /\ checkForUpdates(status.wasm_hash)
    /\ pollFailed' = FALSE
    /\ threads' = IF last_wasm_hash = None
                    THEN threads (+) SetToBag({Thread("l76", "queued")})
                    ELSE threads
    /\ UNCHANGED <<interval, uncaught, response>>
    /\ UNCHANGED <<coordVars, fsVars, mainVars, watchVars, histVars>>

\* One tick of setInterval(checkForUpdates, 2000) whose fetch succeeds; a reload runs
\* the script again, which registers the timer again (lines 210-211)
Poll ==
    /\ serverUp
    /\ interval
    /\ checkForUpdates(status.wasm_hash)
    /\ pollFailed' = FALSE
    /\ UNCHANGED <<interval, uncaught, response>>
    /\ UNCHANGED <<coordVars, fsVars, threads, mainVars, watchVars, histVars>>

\* PollFail with a fault: the next check is scheduled by the response handler, and
\* the chain has no rejection handler.
PollFailStops ==
    /\ serverUp
    /\ interval
    /\ pollFailed' = TRUE
    /\ interval' = FALSE
    /\ uncaught' = TRUE
    /\ UNCHANGED <<lastHash, response, polled, baseline, reloads>>
    /\ UNCHANGED <<coordVars, fsVars, threads, mainVars, watchVars, histVars>>

\* One tick whose fetch or r.json() fails: .catch(() => {}) (line 208); the timer of
\* line 210 is not cleared
PollFail ==
    /\ serverUp
    /\ interval
    /\ pollFailed' = TRUE
    /\ UNCHANGED <<lastHash, interval, uncaught, response, polled, baseline, reloads>>
    /\ UNCHANGED <<coordVars, fsVars, threads, mainVars, watchVars, histVars>>

Next ==
    \/ \E r \in Live : Check76(r)
    \/ \E r \in Live : Queue77(r)
    \/ \E r \in Live : Start80(r)
    \/ \E r \in Live : CmdOk(r)
    \/ \E r \in Live : CmdFail(r)
    \/ \E r \in Live : Exists111(r)
    \/ \E r \in Live : CopyOpen(r)
    \/ \E r \in Live : CopyWrite(r)
    \/ \E r \in Live : CopyFail(r)
    \/ \E r \in Live : Hash118(r)
    \/ \E r \in Live : HashFail(r)
    \/ \E r \in Live : Store124(r)
    \/ \E r \in Live : Finally134(r)
    \/ \E r \in Live : Check136(r)
    \/ \E r \in Live : Clear137(r)
    \/ \E r \in Live : Spawn139(r)
    \/ \E e \in Events : \E now \in Times(last_build, MaxTime) :
          \E now2 \in Times(now, MaxTime) : now2 <= now + Seconds(1) /\ on_modified(e, now, now2)

Spec == Init /\ [][Next]_vars

\* The same system over a longer run of watch events.
NextBurst ==
    \/ \E r \in Live : build_wasm(r)
    \/ \E e \in Events : \E now \in Times(last_build, MaxBurstTime) :
          \E now2 \in Times(now, MaxBurstTime) : now2 <= now + Seconds(1) /\ on_modified(e, now, now2)

SpecBurst == Init /\ [][NextBurst]_vars

\* The same system with the browser page polling it.
NextPage ==
    \/ \E r \in Live : build_wasm(r)
    \/ \E e \in Events : \E now \in Times(last_build, MaxPageTime) :
          \E now2 \in Times(now, MaxPageTime) : now2 <= now + Seconds(1) /\ on_modified(e, now, now2)
    \/ Poll
    \/ PollFail

SpecPage == Init /\ [][NextPage]_vars

\* The browser page polling the system over a longer run of watch events.
NextPageRace ==
    \/ \E r \in Live : build_wasm(r)
    \/ \E e \in Events : \E now \in Times(last_build, MaxPageRaceTime) :
          \E now2 \in Times(now, MaxPageRaceTime) : now2 <= now + Seconds(1) /\ on_modified(e, now, now2)
    \/ Poll
    \/ PollFail

SpecPageRace == Init /\ [][NextPageRace]_vars

\* The watcher alone, its clock read every ClockStepMs, the server started with
\* --no-initial-build and an empty served directory; the build threads it starts are
\* not followed further.
InitWatch == InitRun(TRUE) /\ initial = "skipped" /\ wasm_file = Missing
Later(a, b) == IF a >= b THEN a ELSE b
\* Source files are interchangeable to the watcher: within a window their events
\* come in a fixed order of files, one event for each.
BurstFiles ==
    <<{PathMain, PathRelative}, {SourceFile("N")}, {SourceFile("O")}, {SourceFile("P")},
      {SourceFile("Q")}>>
\* The event may be delivered at instant now: the clock does not run backwards.
Deliverable(e, now) ==
    /\ now \in WatchTimes(Later(last_build, burst.clock))
    /\ ValidSource(e) =>
          LET k == IF InWindow(now) THEN burst.n + 1 ELSE 1
          IN  k <= Len(BurstFiles) /\ e.src_path \in BurstFiles[k]
NextWatch ==
    \/ \E e \in EventsWatch : \E now \in WatchTimes(0) : \E now2 \in WatchTimes(now) :
          /\ Deliverable(e, now)
          /\ now2 <= now + ClockStepMs
          /\ on_modified(e, now, now2)
    \/ \E e \in EventsWatch : \E now \in WatchTimes(0) : \E now2 \in WatchTimes(now) :
          /\ Deliverable(e, now)
          /\ now2 <= now + ClockStepMs
          /\ on_created(e, now, now2)

SpecWatch == InitWatch /\ [][NextWatch]_vars

\* ------------------------------------------------------------ dev_command
\* What leaves the server's fields, the files, the threads and the page unchanged.
OnlyProc == UNCHANGED <<coordVars, fsVars, threads, watchVars, clientVars, histVars>>

\* raven_dev.py lines 229-237: find_app_root(); sys.exit(1) without Package.swift
FindAppRoot ==
    /\ proc.cmd = "dev"
    /\ proc.pc = "start"
    /\ proc' = IF proc.env.marker THEN [proc EXCEPT !.pc = "sdk"] ELSE Exit(proc, 1, "marker")
    /\ UNCHANGED <<serverUp, initial>>
    /\ OnlyProc

\* VerifySdk with a fault: a missing SDK is reported and the command goes on.
VerifySdkWarns ==
    /\ proc.cmd = "dev"
    /\ proc.pc = "sdk"
    /\ proc' = [proc EXCEPT !.pc = "build", !.env.public = TRUE]
    /\ UNCHANGED <<serverUp, initial>>
    /\ OnlyProc

\* lines 239-254: `swift sdk list` names the SDK, or sys.exit(1) (an exception of
\* subprocess.run ends the process with code 1 as well); then public_dir.mkdir,
\* inject_hot_reload, RavenDevServer(...)
VerifySdk ==
    /\ proc.cmd = "dev"
    /\ proc.pc = "sdk"
    /\ proc' = IF proc.env.sdk THEN [proc EXCEPT !.pc = "build", !.env.public = TRUE]
               ELSE Exit(proc, 1, "sdk")
    /\ UNCHANGED <<serverUp, initial>>
    /\ OnlyProc

\* lines 256-260: the main thread calls build_wasm, unless --no-initial-build
InitialBuild ==
    /\ proc.cmd = "dev"
    /\ proc.pc = "build"
    /\ IF proc.env.no_initial_build
         THEN /\ serverUp' = (StartLoop(proc).pc = "serving")
              /\ initial' = "skipped"
              /\ proc' = StartLoop(proc)
              /\ UNCHANGED threads
         ELSE /\ threads' = threads (+) SetToBag({Thread("l76", "main")})
              /\ proc' = [proc EXCEPT !.pc = "building"]
              /\ UNCHANGED <<serverUp, initial>>
    /\ UNCHANGED <<coordVars, fsVars, watchVars, clientVars, histVars>>

\* ---------------------------------------------------------- build_command
\* raven_build.py lines 22-29: find_app_root(); sys.exit(1) without Package.swift
BuildFindAppRoot ==
    /\ proc.cmd = "build"
    /\ proc.pc = "start"
    /\ proc' = IF proc.env.marker THEN [proc EXCEPT !.pc = "run"] ELSE Exit(proc, 1, "marker")
    /\ UNCHANGED <<serverUp, initial>>
    /\ OnlyProc

\* lines 57-68: the build command exits 0; it has written its output, or has not.
BuildRunOk ==
    /\ proc.cmd = "build"
    /\ proc.pc = "run"
    /\ wasm_src' \in Contents \cup {wasm_src}
    /\ proc' = [proc EXCEPT !.pc = "artifact"]
    /\ UNCHANGED <<coordVars, wasm_file, threads, serverUp, initial, watchVars, clientVars, histVars>>

\* lines 59-66: non-zero exit, sys.exit(1); lines 92-97: subprocess.run raises,
\* or the user interrupts it, sys.exit(1)
BuildRunFail ==
    /\ proc.cmd = "build"
    /\ proc.pc = "run"
    /\ \E failure \in {"exit", "exception"} : proc' = Exit(proc, 1, failure)
    /\ UNCHANGED <<serverUp, initial>>
    /\ OnlyProc

\* BuildArtifact with a fault: a missing artifact is reported and the command ends
\* normally.
BuildArtifactWarns ==
    /\ proc.cmd = "build"
    /\ proc.pc = "artifact"
    /\ proc' = IF wasm_src = Missing THEN Exit(proc, 0, "missing")
               ELSE [proc EXCEPT !.pc = "copy"]
    /\ UNCHANGED <<serverUp, initial>>
    /\ OnlyProc

\* lines 70-77: if not wasm_src.exists(): sys.exit(1)
BuildArtifact ==
    /\ proc.cmd = "build"
    /\ proc.pc = "artifact"
    /\ proc' = IF wasm_src = Missing THEN Exit(proc, 1, "missing")
               ELSE [proc EXCEPT !.pc = "copy"]
    /\ UNCHANGED <<serverUp, initial>>
    /\ OnlyProc

\* lines 79-90: stat; copy to the public directory if it exists; the command returns
BuildCopy ==
    /\ proc.cmd = "build"
    /\ proc.pc = "copy"
    /\ wasm_src # Missing
    /\ wasm_file' = IF proc.env.public THEN wasm_src ELSE wasm_file
    /\ proc' = Exit(proc, 0, "none")
    /\ UNCHANGED <<coordVars, wasm_src, threads, serverUp, initial, watchVars, clientVars, histVars>>

\* lines 80-97: stat or shutil.copy2 raises (the copy may have truncated its
\* destination), sys.exit(1)
BuildCopyFail ==
    /\ proc.cmd = "build"
    /\ proc.pc = "copy"
    /\ wasm_file' \in {wasm_file} \cup (IF proc.env.public THEN {Empty} ELSE {})
    /\ proc' = Exit(proc, 1, "exception")
    /\ UNCHANGED <<coordVars, wasm_src, threads, serverUp, initial, watchVars, clientVars, histVars>>

\* --------------------------------------------------------- error excerpts
\* str.lower, on the letters that occur
LowerChar(c) == CASE c = "E" -> "e" [] c = "R" -> "r" [] c = "O" -> "o" [] OTHER -> c
lower(line) == [i \in 1..Len(line) |-> LowerChar(line[i])]
\* 'error:'
errorMarker == <<"e", "r", "r", "o", "r", ":">>
\* [line for line in stderr.split('\n') if 'error:' in line.lower()]
RECURSIVE errors_of(_)
errors_of(lines) ==
    IF lines = <<>> THEN <<>>
    ELSE (IF Contains(lower(Head(lines)), errorMarker) THEN <<Head(lines)>> ELSE <<>>)
             \o errors_of(Tail(lines))
\* seq[:k]
Slice(seq, k) == SubSeq(seq, 1, IF Len(seq) < k THEN Len(seq) ELSE k)

\* build_wasm lines 99-104: the first 5 error lines, then '... and k more errors'
dev_errors(stderr) ==
    LET errors == errors_of(stderr)
    IN  [shown |-> Slice(errors, DevErrorLimit),
         more |-> IF Len(errors) > DevErrorLimit THEN <<Len(errors) - DevErrorLimit>> ELSE <<>>]

\* build_command lines 61-65: the first 10 error lines, unless --verbose left the
\* output uncaptured
build_errors(stderr, verbose) ==
    IF ~verbose /\ stderr # <<>>
      THEN [shown |-> Slice(errors_of(stderr), BuildErrorLimit), more |-> <<>>]
      ELSE NoOutput

\* build_wasm lines 97-105, in a thread of dev_command
DevShowErrors ==
    /\ proc.cmd = "dev"
    /\ proc.pc = "failed"
    /\ proc' = [proc EXCEPT !.pc = "reported", !.out = dev_errors(proc.stderr)]
    /\ UNCHANGED <<serverUp, initial>>
    /\ OnlyProc

\* build_command lines 59-66
BuildShowErrors ==
    /\ proc.cmd = "build"
    /\ proc.pc = "failed"
    /\ proc' = Exit([proc EXCEPT !.out = build_errors(proc.stderr, proc.verbose)], 1, "exit")
    /\ UNCHANGED <<serverUp, initial>>
    /\ OnlyProc

\* Captured lines: the i-th error line is in lower case, in upper case, or carries
\* the marker after other text; a warning and a line with 'errors' stand among them.
Digits == <<"1", "2", "3", "4", "5", "6", "7", "8", "9", "a", "b", "c", "d", "e">>
ErrorLine(i) ==
    (CASE i % 3 = 1 -> errorMarker
       [] i % 3 = 2 -> <<"E", "R", "R", "O", "R", ":">>
       [] OTHER -> <<"x", " ">> \o errorMarker) \o <<Digits[i]>>
WarnLine == <<"w", "a", "r", "n", ":">>
NearMiss == <<"e", "r", "r", "o", "r", "s">>
Stderr(n, w) ==
    LET errs == [i \in 1..n |-> ErrorLine(i)]
    IN  SubSeq(errs, 1, w) \o <<WarnLine, NearMiss>> \o SubSeq(errs, w + 1, n)
StderrInputs ==
    {<<>>} \cup UNION {{Stderr(n, w) : w \in 0..n} : n \in 0..MaxErrorLines}

\* The build command of a process has exited non-zero; its output was captured,
\* or (--verbose) was not.
InitReport ==
    /\ InitState(FALSE)
    /\ threads = EmptyBag
    /\ serverUp = FALSE
    /\ initial = "pending"
    /\ \E cmd \in {"dev", "build"} : \E verbose \in BOOLEAN : \E stderr \in StderrInputs :
          /\ verbose => cmd = "build" /\ stderr = <<>>
          /\ proc = [Proc(cmd, "failed", Env(TRUE, TRUE, TRUE, source_dirs, FALSE))
                        EXCEPT !.verbose = verbose, !.stderr = stderr]

NextReport ==
    \/ DevShowErrors
    \/ BuildShowErrors

SpecReport == InitReport /\ [][NextReport]_vars

\* -------------------------------------------------------- response headers
\* response.headers[name] = value
SetHeader(resp, name, value) ==
    [resp EXCEPT !.headers = [n \in DOMAIN resp.headers \cup {name} |->
                                 IF n = name THEN value ELSE resp.headers[n]]]
\* The three assignments made for an artifact response
NoCache(resp) ==
    SetHeader(SetHeader(SetHeader(resp,
        "Cache-Control", "no-cache, no-store, must-revalidate"),
        "Pragma", "no-cache"),
        "Expires", "0")

\* raven_dev.py lines 56-63 (raven-dev.py of TodoApp lines 76-85)
add_headers(resp) ==
    SetHeader(IF resp.mimetype = "application/wasm" THEN NoCache(resp) ELSE resp,
              "Access-Control-Allow-Origin", "*")

\* serve_add_headers with a fault: the Expires header is left as the framework set it.
serve_add_headersNoExpires(resp) ==
    IF resp.mimetype = "application/wasm"
      THEN SetHeader(SetHeader(resp,
               "Cache-Control", "no-cache, no-store, must-revalidate"),
               "Pragma", "no-cache")
      ELSE resp

\* raven_serve.py lines 57-63: add_headers of serve_command
serve_add_headers(resp) ==
    IF resp.mimetype = "application/wasm" THEN NoCache(resp) ELSE resp

\* serve.py of TodoApp lines 5-11
add_header(resp) ==
    IF resp.mimetype = "application/wasm" THEN NoCache(resp) ELSE resp

\* What the routes hand to the after_request hook: send_from_directory's response
\* for a file (its type guessed from the name, its caching headers set by the
\* framework or not), jsonify's for the status, or an error page.
MimeTypes ==
    {"application/wasm", "text/html", "text/css", "application/javascript",
     "application/json", "application/octet-stream"}
FrameworkHeaders ==
    {NoHeaders,
     [name \in {"Cache-Control"} |-> "no-cache"],
     [name \in {"Cache-Control", "Expires"} |->
         IF name = "Cache-Control" THEN "public, max-age=43200" ELSE "Thu, 01 Jan 2026 00:00:00 GMT"]}
Routed == {Response(mimetype, headers) : mimetype \in MimeTypes, headers \in FrameworkHeaders}

\* The dev server answers a request.
DevRespond ==
    /\ proc.cmd = "dev"
    /\ serverUp
    /\ \E resp \in Routed : response' = add_headers(resp)
    /\ UNCHANGED <<lastHash, interval, uncaught, pollFailed, polled, baseline, reloads>>
    /\ UNCHANGED <<coordVars, fsVars, threads, mainVars, watchVars, histVars>>

\* The server of serve_command answers a request.
ServeRespond ==
    /\ proc.cmd = "serve"
    /\ serverUp
    /\ \E resp \in (Routed \ {r \in Routed : r.mimetype = "application/json"}) :
          response' = serve_add_headers(resp)
    /\ UNCHANGED <<lastHash, interval, uncaught, pollFailed, polled, baseline, reloads>>
    /\ UNCHANGED <<coordVars, fsVars, threads, mainVars, watchVars, histVars>>

\* The server of TodoApp's serve.py answers a request.
TodoServeRespond ==
    /\ proc.cmd = "serve.py"
    /\ serverUp
    /\ \E resp \in (Routed \ {r \in Routed : r.mimetype = "application/json"}) :
          response' = add_header(resp)
    /\ UNCHANGED <<lastHash, interval, uncaught, pollFailed, polled, baseline, reloads>>
    /\ UNCHANGED <<coordVars, fsVars, threads, mainVars, watchVars, histVars>>

\* One of the three servers is running (raven_dev.py 287, raven_serve.py 76,
\* serve.py 22).
InitServe ==
    /\ InitState(FALSE)
    /\ threads = EmptyBag
    /\ serverUp = TRUE
    /\ initial = "skipped"
    /\ \E cmd \in {"dev", "serve", "serve.py"} :
          proc = [Proc(cmd, "serving", Env(TRUE, TRUE, TRUE, source_dirs, TRUE))
                    EXCEPT !.watched = IF cmd = "dev" THEN source_dirs ELSE {},
                           !.observer = (cmd = "dev")]

NextServe ==
    \/ DevRespond
    \/ ServeRespond
    \/ TodoServeRespond

SpecServe == InitServe /\ [][NextServe]_vars

\* A command from its first statement, in every environment.
InitCli ==
    /\ InitState(FALSE)
    /\ threads = EmptyBag
    /\ serverUp = FALSE
    /\ initial = "pending"
    /\ \E cmd \in {"dev", "build"} : \E marker, sdk, public, no_initial_build \in BOOLEAN :
          \E exists \in SUBSET source_dirs :
             proc = Proc(cmd, "start", Env(marker, sdk, public, exists, no_initial_build))

NextCli ==
    \/ FindAppRoot
    \/ VerifySdk
    \/ InitialBuild
    \/ \E r \in Live : build_wasm(r)
    \/ \E e \in Events : \E now \in Times(last_build, MaxCliTime) :
          \E now2 \in Times(now, MaxCliTime) :
             /\ proc.watched # {}
             /\ now2 <= now + Seconds(1)
             /\ on_modified(e, now, now2)
    \/ BuildFindAppRoot
    \/ BuildRunOk
    \/ BuildRunFail
    \/ BuildArtifact
    \/ BuildCopy
    \/ BuildCopyFail

SpecCli == InitCli /\ [][NextCli]_vars

\* ================================================================== claims
\* Number of threads at one of the program points pcs.
NumAt(pcs) == BagCardinality([r \in {x \in Live : x.pc \in pcs} |-> threads[r]])
\* The build command of some thread is executing.
Running == NumAt({"run"})
\* A build cycle is between line 80 and the finally clause.
InCycle == NumAt({"run", "l111", "l116", "copying", "l118", "l124", "l134"}) > 0
\* A follow-up build is owed: the flag is set, or a finishing thread is about to
\* start the follow-up thread, or that thread has not yet reached line 76.
FollowUpPending ==
    \/ build_queued
    \/ NumAt({"l137", "l139"}) > 0
    \/ \E r \in Live : r.kind = "queued" /\ r.pc = "l76"

\* C1: at most one external build command is executing at any instant.
C1_AtMostOneBuildRunning == Running <= 1

\* C2: when every request of a burst observed the first build in flight and no
\* request came after it, at most 2 build commands are started in total.
C2_BurstAtMostTwoBuilds == scen # "void" => builds <= 2

\* C3: no request is dropped: once every thread has left build_wasm, a build
\* command has started at or after each call.
C3_NoSilentDrop == Live = {} => ~unserved

\* C4: last_wasm_hash is assigned only by line 124 of a cycle whose command exited 0,
\* whose artifact was found and copied, with the hash that cycle read; a cycle that
\* returns True has assigned it; no failing statement of a cycle changes it.
C4_FingerprintOnlyOnSuccess ==
    [][/\ last_wasm_hash' # last_wasm_hash =>
            \E r \in Live : /\ Store124(r)
                            /\ r.stage = "copied"
                            /\ last_wasm_hash' = r.new_hash
       /\ \A r \in Live : Store124(r) => r.stage = "copied" /\ r.content \in copied
       /\ \A r \in Live : r.ret => stored /\ last_wasm_hash # None
       /\ \A r \in Live :
            (CmdFail(r) \/ CopyFail(r) \/ HashFail(r) \/ (Exists111(r) /\ wasm_src = Missing))
                => last_wasm_hash' = last_wasm_hash]_vars
\* A failed cycle is in its finally clause after an earlier cycle stored a fingerprint.
C4_Witness ==
    /\ stored
    /\ last_wasm_hash # None
    /\ \E r \in Live : r.pc = "l134" /\ ~r.ret

\* C5: a reported fingerprint is the digest of a content whose copy into the
\* served directory has completed.
C5_FingerprintOfCompletedCopy ==
    status.wasm_hash # None => \E c \in copied : status.wasm_hash = md5(c)

\* C6: the status endpoint's building is true iff a build is executing or a
\* follow-up build is pending.
C6_BuildingIffNotIdle == serverUp => (status.building <=> (InCycle \/ FollowUpPending))

\* C7 as stated: before any build has succeeded, the status fingerprint is that of
\* the artifact found in the served directory, and null only when there is none.
C7_DerivedFromExistingArtifact ==
    (serverUp /\ ~stored /\ copied = {} /\ NumAt({"copying"}) = 0)
        => status.wasm_hash = get_wasm_hash
\* C7 as amended: the status fingerprint is null until a build cycle of this run
\* stores one, whether or not an artifact is already served.
C7_NullUntilFirstSuccess == status.wasm_hash # None => stored
\* The initial build was skipped, an artifact of an earlier run is served, and the
\* page's first status query has returned a null fingerprint.
C7_Witness ==
    /\ serverUp
    /\ initial = "skipped"
    /\ wasm_file \in Contents
    /\ ~stored
    /\ polled
    /\ baseline = None

\* C8: a step taken before the page has completed a successful poll, its first
\* successful poll included, triggers no reload.
C8_FirstPollNeverReloads == [][~polled => reloads' = reloads]_vars
\* The first poll saw a fingerprint and recorded it without reloading.
C8_Witness == polled /\ baseline # None /\ lastHash = baseline /\ reloads = 0

\* C9: a successful poll after the first reloads iff the observed fingerprint is
\* non-null and differs from the baseline of the first poll.
C9_ReloadIffDiffers ==
    [][(polled /\ Poll) =>
          ((reloads' = reloads + 1) <=> (status.wasm_hash # None /\ status.wasm_hash # baseline))]_vars

\* C10: after a successful initial build the status is (H1, not building); a later
\* successful build of a different content leaves a fingerprint other than H1; a
\* page whose baseline is H1 reloads on observing another fingerprint.
C10_EndToEnd ==
    [][/\ \A r \in Live :
            (r.kind = "main" /\ r.ret /\ Check136(r)) =>
                /\ status'.wasm_hash = h1 /\ h1 # None
                /\ ~status'.building
       /\ \A r \in Live :
            (r.kind # "main" /\ h1 # None /\ r.content \in Contents /\ md5(r.content) # h1
                /\ Store124(r)) =>
                status'.wasm_hash \notin {None, h1}
       /\ (polled /\ baseline = h1 /\ h1 # None /\ status.wasm_hash \notin {None, h1} /\ Poll) =>
                reloads' = reloads + 1]_vars

\* The watcher's thread started one more build_wasm thread in this step.
StartsBuild == threads' = threads (+) SetToBag({Thread("l76", "watcher")})
\* The event of this step was accepted, at the instant burst'.last_accept.
AcceptedNow == burst'.last_accept # burst.last_accept

\* C11: an event is accepted only when at least debounce_seconds have elapsed since
\* last_build; acceptance starts a build and sets last_build to the clock's reading at
\* acceptance; a rejected event starts none and leaves last_build unchanged; two
\* accepted events are at least debounce_seconds apart.
C11_DebounceGate ==
    [][/\ AcceptedNow =>
            /\ burst'.last_accept - last_build >= Seconds(debounce_seconds)
            /\ last_build' >= burst'.last_accept
            /\ last_build' = burst'.clock
            /\ burst.last_accept # 0 =>
                    burst'.last_accept - burst.last_accept >= Seconds(debounce_seconds)
            /\ StartsBuild
       /\ ~AcceptedNow => last_build' = last_build /\ threads' = threads]_vars
\* Two events were accepted, and a later event was rejected.
C11_Witness ==
    /\ BagCardinality(threads) = 2
    /\ burst.last_accept - StartTime >= Seconds(debounce_seconds)
    /\ burst.clock > last_build

C13_EventFiltering ==
    [][\A e \in EventsWatch :
          LET now == IF AcceptedNow THEN burst'.last_accept ELSE burst'.clock
          IN  on_modified(e, now, burst'.clock) =>
                /\ (~EndsWith(e.src_path, dotSwift) \/ HasDotSegment(e.src_path))
                        => threads' = threads
                /\ (ValidSource(e) /\ now - last_build >= Seconds(debounce_seconds))
                        => StartsBuild]_vars
\* Events were rejected while the gate was open, then a source file's event was accepted.
C13_Witness ==
    /\ burst.firstAccepted
    /\ burst.t0 > StartTime
    /\ burst.last_accept = burst.t0
    /\ last_build >= burst.t0
    /\ burst.n = 1
    /\ BagCardinality(threads) = 1

\* A statement of thread r at which its build cycle fails.
Fails(r) ==
    \/ CmdFail(r)
    \/ Exists111(r) /\ wasm_src = Missing
    \/ CopyFail(r)
    \/ HashFail(r)
\* Thread r returns from build_wasm in this step.
Returns(r) == (Check136(r) /\ ~build_queued) \/ Spawn139(r)

\* C14: every failure inside a cycle (non-zero exit, timeout, missing artifact,
\* exception in copy or hash) takes the thread to the finally clause with the return
\* value False; the initial build's caller receives it and goes on to start the
\* server; building is never left set with no cycle in flight, so a request made when
\* no cycle is in flight starts a new build.
C14_FailureContained ==
    /\ [](building => InCycle)
    /\ [][\A r \in Live :
             /\ Fails(r) => ~r.ret /\ At(r, "l134") \in BagToSet(threads')
             /\ (r.pc = "l134" /\ r.stage # "copied") => ~r.ret
             /\ (Returns(r) /\ r.kind = "main" /\ ~r.ret) => serverUp' /\ initial' = "failed"
             /\ (Check76(r) /\ ~InCycle) => (NumAt({"l80"}))' = NumAt({"l80"}) + 1]_vars
\* The initial build failed, and the build command of a later request is running.
C14_Witness ==
    /\ initial = "failed"
    /\ ~stored
    /\ \E r \in Live : r.kind = "watcher" /\ r.pc = "run"

\* C15: a poll that fails triggers no reload, leaves the page's baseline unchanged,
\* reaches the user as no error and leaves the timer registered, so that the next
\* tick polls again; nothing but a poll changes the page's state.
C15_FailedPollSwallowed ==
    /\ [](interval /\ ~uncaught)
    /\ [][/\ PollFail => /\ reloads' = reloads
                         /\ lastHash' = lastHash
                         /\ baseline' = baseline
                         /\ polled' = polled
          /\ (pollFailed /\ Poll) => ~pollFailed'
          /\ clientVars' # clientVars => Poll \/ PollFail]_vars
\* A poll has just failed after the page took a baseline: the baseline is kept, no
\* reload happened and the timer is registered.
C15_Witness ==
    /\ pollFailed
    /\ polled
    /\ baseline # None
    /\ lastHash = baseline
    /\ reloads = 0
    /\ interval
    /\ ~uncaught

\* C16: build_command ends with exit code 1 on every build failure (non-zero exit,
\* missing artifact, exception) and with 0 only after a build whose artifact exists;
\* dev_command, after a failed initial build, has exited nowhere: the observer and the
\* server are started.
C16_ExitCodes ==
    /\ proc.cmd = "build" =>
          /\ proc.failure # "none" => proc.exit = <<1>>
          /\ proc.exit = <<0>> => proc.failure = "none" /\ wasm_src # Missing
    /\ (proc.cmd = "dev" /\ initial = "failed") =>
          /\ proc.exit = <<>>
          /\ proc.pc = "serving"
          /\ proc.observer
          /\ serverUp
\* build_command has exited with code 1 because its artifact was missing.
C16_Witness ==
    /\ proc.cmd = "build"
    /\ proc.failure = "missing"
    /\ proc.exit = <<1>>

\* C17: without Package.swift or without the SDK, dev_command exits only with a
\* non-zero code, and has started no build, no observer and no server.
C17_SetupErrorsFatal ==
    (proc.cmd = "dev" /\ (~proc.env.marker \/ ~proc.env.sdk)) =>
        /\ proc.pc \in {"start", "sdk", "exited"}
        /\ proc.pc = "exited" => proc.exit # <<>> /\ proc.exit # <<0>>
        /\ builds = 0
        /\ threads = EmptyBag
        /\ ~proc.observer
        /\ proc.watched = {}
        /\ ~serverUp
\* Package.swift was found, the SDK was not, and dev_command has exited with code 1.
C17_Witness ==
    /\ proc.cmd = "dev"
    /\ proc.env.marker
    /\ ~proc.env.sdk
    /\ proc.pc = "exited"
    /\ proc.exit = <<1>>

\* C18: once dev_command is past its initial build, the observer watches exactly the
\* configured roots that exist, the process has not exited and the server runs.
C18_MissingRootSkipped ==
    (proc.cmd = "dev" /\ initial # "pending") =>
        /\ proc.watched = source_dirs \cap proc.env.exists
        /\ proc.observer
        /\ proc.exit = <<>>
        /\ proc.pc = "serving"
        /\ serverUp
\* One configured root is missing: the other is watched and the server runs.
C18_Witness ==
    /\ proc.cmd = "dev"
    /\ proc.env.exists = {"Sources"}
    /\ proc.watched = {"Sources"}
    /\ serverUp

\* The lines of the captured output that contain the marker, case-insensitively.
HasMarker(line) == Contains(lower(line), errorMarker)
Matching(stderr) == SelectSeq(stderr, HasMarker)
\* The excerpt of a failed build: the first limit matching lines, and the count of
\* the rest.
Excerpt(stderr, limit) ==
    [shown |-> Slice(Matching(stderr), limit),
     more |-> IF Len(Matching(stderr)) > limit THEN <<Len(Matching(stderr)) - limit>> ELSE <<>>]

\* C19: what a failed build prints of its captured output is the first 5 (dev loop)
\* or the first 10 (one-shot build) lines that contain the marker, in order, and the
\* count of the matching lines beyond the limit.
C19_ErrorExcerpt ==
    (proc.pc \in {"reported", "exited"} /\ ~proc.verbose /\ proc.stderr # <<>>) =>
        proc.out = Excerpt(proc.stderr,
                           IF proc.cmd = "dev" THEN DevErrorLimit ELSE BuildErrorLimit)

\* The header is set on the response, with this value.
Carries(resp, name, value) == name \in DOMAIN resp.headers /\ resp.headers[name] = value

\* C20: a response of type application/wasm sent by the dev server, by serve_command's
\* server or by serve.py carries the three no-cache headers; on a response of another
\* type the hook sets none of them.
C20_HeaderPolicy ==
    [][IF response'.mimetype = "application/wasm"
         THEN /\ Carries(response', "Cache-Control", "no-cache, no-store, must-revalidate")
              /\ Carries(response', "Pragma", "no-cache")
              /\ Carries(response', "Expires", "0")
         ELSE /\ "Pragma" \notin DOMAIN response'.headers
              /\ \E routed \in Routed :
                    /\ routed.mimetype = response'.mimetype
                    /\ \A name \in {"Cache-Control", "Expires"} :
                          /\ (name \in DOMAIN response'.headers) = (name \in DOMAIN routed.headers)
                          /\ name \in DOMAIN routed.headers =>
                                response'.headers[name] = routed.headers[name]]_vars
\* serve_command's server sent an artifact with the three headers.
C20_Witness ==
    /\ proc.cmd = "serve"
    /\ response.mimetype = "application/wasm"
    /\ Carries(response, "Expires", "0")
    /\ Carries(response, "Pragma", "no-cache")
    /\ Carries(response, "Cache-Control", "no-cache, no-store, must-revalidate")

\* C21: every response sent by a server of the repository, whatever its type,
\* carries Access-Control-Allow-Origin: *.
C21_CorsOnEveryResponse ==
    response # NoResponse => Carries(response, "Access-Control-Allow-Origin", "*")

\* --------------------------------------------------------------- get_config
\* The configuration keys a project file may define.
ConfigKeys == {"app_name", "swift_sdk", "wasm_target", "public_dir", "build_dir", "source_dirs"}
\* The text "Examples"
ExamplesText == <<"E", "x", "a", "m", "p", "l", "e", "s">>
\* An app root: its path, and whether <path>/../../Sources exists.
AppRoot(path, framework) == [path |-> path, framework |-> framework]
\* /Examples/T, /w/A, /OldExamples/B
AppRootPaths ==
    {<<"/">> \o ExamplesText \o <<"/", "T">>,
     <<"/", "w", "/", "A">>,
     <<"/", "O", "l", "d">> \o ExamplesText \o <<"/", "B">>}
\* Path.name: the last segment of the path
PathName(path) == Segments(path)[Len(Segments(path))]
\* What a project's .raven.json gives for a key other than source_dirs.
FileValues ==
    [app_name |-> <<"A", "p", "p">>, swift_sdk |-> "sdk-of-file", wasm_target |-> "wasm32/release",
     public_dir |-> "www", build_dir |-> "out"]
FileSourceDirs == {<<"Src">>, <<"Sources", "../../Sources">>}
\* The objects json.load can return for the file: any subset of the keys defined.
ConfigJsons ==
    {[key \in D |-> IF key = "source_dirs" THEN dirs ELSE FileValues[key]] :
        D \in SUBSET ConfigKeys, dirs \in FileSourceDirs}
\* .raven.json: absent, or holding one of the objects.
ConfigFiles ==
    {[exists |-> FALSE, json |-> [key \in {} |-> ""]]}
        \cup {[exists |-> TRUE, json |-> json] : json \in ConfigJsons}

\* utils.py lines 68-75
defaults(app_root) ==
    [app_name |-> PathName(app_root.path),
     swift_sdk |-> "swift-6.2.3-RELEASE_wasm",
     wasm_target |-> "wasm32-unknown-wasip1/debug",
     public_dir |-> "public",
     build_dir |-> ".build",
     source_dirs |-> <<"Sources">>]
\* dict.setdefault for every key of the defaults (lines 78-79)
Merge(config, app_root) ==
    [key \in ConfigKeys |-> IF key \in DOMAIN config THEN config[key] ELSE defaults(app_root)[key]]
\* lines 82-87: an app under a path containing "Examples" whose ../../Sources exists
\* gets that root appended to its source_dirs
AddFrameworkSources(config, app_root) ==
    IF Contains(app_root.path, ExamplesText) /\ app_root.framework
      THEN [config EXCEPT !.source_dirs =
               Append(IF "source_dirs" \notin DOMAIN config THEN <<"Sources">> ELSE @,
                      "../../Sources")]
      ELSE config
\* lines 89-96: the raw artifact and the served artifact; a path is the list of its
\* parts and a file name is <<stem, suffix>>
ComputePaths(config, app_root) ==
    [key \in ConfigKeys \cup {"wasm_src", "wasm_file"} |->
        CASE key = "wasm_src" ->
                 <<app_root.path, config.build_dir, config.wasm_target, <<config.app_name, ".wasm">> >>
          [] key = "wasm_file" ->
                 <<app_root.path, config.public_dir, <<config.app_name, "-v2.wasm">> >>
          [] OTHER -> config[key]]
\* get_config (lines 56-98)
get_config(app_root, config_file) ==
    LET config == IF config_file.exists THEN config_file.json ELSE [key \in {} |-> ""]
    IN  ComputePaths(AddFrameworkSources(Merge(config, app_root), app_root), app_root)

\* A command is about to read the configuration of its app (raven_dev.py 237,
\* raven_build.py 29, raven_serve.py 30).
InitConfig ==
    /\ InitState(FALSE)
    /\ wasm_file = Missing
    /\ threads = EmptyBag
    /\ serverUp = FALSE
    /\ initial = "pending"
    /\ \E path \in AppRootPaths : \E framework \in BOOLEAN : \E config_file \in ConfigFiles :
          proc = Proc("dev", "config", Env(TRUE, TRUE, TRUE, source_dirs, FALSE))
                    @@ [app_root |-> AppRoot(path, framework), config_file |-> config_file,
                        config |-> [key \in {} |-> ""]]

\* config = get_config(app_root)
GetConfig ==
    /\ proc.pc = "config"
    /\ proc' = [proc EXCEPT !.pc = "sdk", !.config = get_config(proc.app_root, proc.config_file)]
    /\ UNCHANGED <<serverUp, initial>>
    /\ OnlyProc

NextConfig == GetConfig

SpecConfig == InitConfig /\ [][NextConfig]_vars

\* C22: for every configuration key, get_config returns the project file's value
\* when the file defines the key and the default otherwise.
C22_ConfigMerge ==
    proc.pc = "sdk" /\ "config" \in DOMAIN proc =>
        \A key \in ConfigKeys :
            proc.config[key] =
                IF proc.config_file.exists /\ key \in DOMAIN proc.config_file.json
                  THEN proc.config_file.json[key]
                  ELSE defaults(proc.app_root)[key]

\* C23: a status query leaves building, build_queued and last_wasm_hash as they
\* were and starts no build: no thread is created or moved, and no build command
\* begins, whatever the build threads are doing at that moment.
C23_StatusReadOnly ==
    [][Poll => UNCHANGED <<building, build_queued, last_wasm_hash, threads, builds>>]_vars
\* The page's last poll succeeded and a build command is executing.
C23_Witness ==
    /\ polled
    /\ ~pollFailed
    /\ Running = 1
    /\ building

\* ---------------------------------------------------------- get_wasm_hash
\* open() or read() of an existing file raises.
OSError == <<"OSError">>
\* A call of the hasher: the file as it was, and what the call returned or raised.
HashCall(content, result) == [content |-> content, result |-> result]

\* The server is up over a served directory with or without an artifact; no call yet.
InitHash ==
    /\ InitState(FALSE)
    /\ threads = EmptyBag
    /\ serverUp = TRUE
    /\ initial = "skipped"
    /\ proc = StartLoop(Proc("dev", "build", Env(TRUE, TRUE, TRUE, source_dirs, TRUE)))
                 @@ [calls |-> <<>>]

\* lines 65-72: one call of get_wasm_hash on the served artifact as it is
CallHash ==
    /\ Len(proc.calls) < MaxHashCalls
    /\ proc' = [proc EXCEPT !.calls = Append(@, HashCall(wasm_file, get_wasm_hash))]
    /\ UNCHANGED <<serverUp, initial>>
    /\ OnlyProc

\* lines 70-71: the file exists and open() or read() raises
CallHashRaises ==
    /\ Len(proc.calls) < MaxHashCalls
    /\ wasm_file # Missing
    /\ proc' = [proc EXCEPT !.calls = Append(@, HashCall(wasm_file, OSError))]
    /\ UNCHANGED <<serverUp, initial>>
    /\ OnlyProc

\* Between two calls a build's copy (line 116) truncates the served artifact
ArtifactTruncated ==
    /\ wasm_file # Empty
    /\ wasm_file' = Empty
    /\ UNCHANGED <<coordVars, wasm_src, threads, mainVars, watchVars, clientVars, histVars>>

\* and writes the bytes of a build's output into it.
ArtifactWritten ==
    /\ wasm_file = Empty
    /\ wasm_file' \in Contents
    /\ UNCHANGED <<coordVars, wasm_src, threads, mainVars, watchVars, clientVars, histVars>>

NextHash ==
    \/ CallHash
    \/ CallHashRaises
    \/ ArtifactTruncated
    \/ ArtifactWritten

SpecHash == InitHash /\ [][NextHash]_vars

\* C24: a call of get_wasm_hash on a missing artifact returns None and does not
\* raise; a call that returns on an existing artifact returns a fingerprint, and two
\* such calls on equal contents return equal fingerprints, whenever they are made.
C24_HasherDeterministic ==
    "calls" \in DOMAIN proc =>
        \A i \in 1..Len(proc.calls) :
            LET call == proc.calls[i]
            IN  /\ call.content = Missing => call.result = None
                /\ call.content # Missing => call.result # None
                /\ \A j \in 1..Len(proc.calls) :
                      /\ call.content = proc.calls[j].content
                      /\ call.result # OSError
                      /\ proc.calls[j].result # OSError
                      => call.result = proc.calls[j].result
\* The hasher returned None for a missing artifact, then a fingerprint for the
\* artifact a build wrote.
C24_Witness ==
    /\ "calls" \in DOMAIN proc
    /\ Len(proc.calls) = MaxHashCalls
    /\ proc.calls[1].content = Missing
    /\ proc.calls[1].result = None
    /\ proc.calls[2].content \in Contents
    /\ proc.calls[2].result \notin {None, OSError}
    /\ proc.calls[3].content = proc.calls[2].content
    /\ proc.calls[3].result = proc.calls[2].result

\* The finishing thread r is replaced by exactly one new thread about to call build_wasm.
OneFollowUp(r) ==
    threads' = (threads (-) SetToBag({r})) (+) SetToBag({Thread("l76", "queued")})

\* C25: a thread that finds build_queued set at line 136 clears it and starts exactly
\* one thread for the follow-up, returning without waiting for it; a thread that finds
\* it clear returns and starts none, and the coordinator is then idle (building false
\* and no build between its command and its store) unless a cycle begun since then
\* holds the building flag.
C25_FollowUpOnFinish ==
    [][\A r \in Live :
          /\ Check136(r) /\ build_queued => Goto(r, At(r, "l137"))
          /\ Clear137(r) => ~build_queued'
          /\ Spawn139(r) => OneFollowUp(r)
          /\ Check136(r) /\ ~build_queued =>
                /\ threads' = threads (-) SetToBag({r})
                /\ ~build_queued'
                /\ \/ ~building' /\ NumAt({"run", "l111", "l116", "copying", "l118", "l124"})' = 0
                   \/ building' /\ InCycle']_vars

\* C26: a call that finds building set at line 76 goes to line 77 having changed
\* nothing; there it can always take its step, whatever the in-flight build is doing,
\* and the step sets build_queued, returns, starts no build command and leaves
\* building, last_wasm_hash and the files unchanged.
C26_QueuedCallOnlySetsFlag ==
    [][\A r \in Live :
          /\ Check76(r) /\ building =>
                /\ \E r2 \in DOMAIN threads' : r2.pc = "l77" /\ Goto(r, r2)
                /\ UNCHANGED <<coordVars, fsVars, builds>>
          /\ Queue77(r) =>
                /\ build_queued' = TRUE
                /\ threads' = threads (-) SetToBag({r})
                /\ UNCHANGED <<building, last_wasm_hash, fsVars, builds>>
          /\ r.pc = "l77" => ENABLED Queue77(r)]_vars
\* A call made while a build command was executing has returned: the flag is set,
\* one command has been started and it is still executing.
C26_Witness ==
    /\ build_queued
    /\ building
    /\ builds = 1
    /\ last_build = Seconds(2)
    /\ Live # {}
    /\ \A r \in Live : r.pc = "run"
    /\ Running = 1

\* An event for a source file can be accepted in this state.
CanAccept ==
    ENABLED (\E now \in Times(last_build, MaxTime) : \E now2 \in Times(now, MaxTime) :
                /\ on_modified(Event(PathMain, FALSE), now, now2)
                /\ last_build' # last_build)

\* C27: the step that accepts an event sets last_build and adds one thread that has
\* not yet executed a statement of build_wasm; it changes no field of the server, no
\* file and starts no command itself. While a build command is executing the
\* handler is still able to accept an event, once the debounce interval has elapsed.
C27_FireAndForget ==
    [][/\ last_build' # last_build =>
            /\ StartsBuild
            /\ last_build' > last_build
            /\ UNCHANGED <<coordVars, fsVars, builds>>
       /\ (/\ serverUp
           /\ Running >= 1
           /\ last_build + Seconds(debounce_seconds) <= Seconds(MaxTime)) => CanAccept]_vars
\* An event has been accepted and its thread has not started, while the command of
\* the build requested by the event before it is executing.
C27_Witness ==
    /\ Running = 1
    /\ builds = 1
    /\ last_build = Seconds(2)
    /\ \E r \in Live : r.pc = "l76" /\ r.kind = "watcher"

\* ------------------------------------------------------- the build command
\* The external build command may never exit by itself (proc.hangs). In build_wasm
\* subprocess.run is given timeout=120 (line 92), so the call ends by TimeoutExpired
\* (a case of CmdFail) all the same; in build_command it is given none (raven_build.py
\* 57), so the call ends only when the command does.
InitTimeout ==
    /\ InitState(FALSE)
    /\ threads = EmptyBag
    /\ serverUp = FALSE
    /\ initial = "pending"
    /\ \E cmd \in {"dev", "build"} : \E marker, sdk, public, no_initial_build, hangs \in BOOLEAN :
          proc = Proc(cmd, "start", Env(marker, sdk, public, source_dirs, no_initial_build))
                    @@ [hangs |-> hangs]

\* One statement of build_wasm by thread r, the command exiting by itself only if
\* it does not hang.
TimedBuildWasm(r) ==
    \/ Check76(r)
    \/ Queue77(r)
    \/ Start80(r)
    \/ ~proc.hangs /\ CmdOk(r)
    \/ CmdFail(r)
    \/ Exists111(r)
    \/ CopyOpen(r)
    \/ CopyWrite(r)
    \/ CopyFail(r)
    \/ Hash118(r)
    \/ HashFail(r)
    \/ Store124(r)
    \/ Finally134(r)
    \/ Check136(r)
    \/ Clear137(r)
    \/ Spawn139(r)

NextTimeout ==
    \/ FindAppRoot
    \/ VerifySdk
    \/ InitialBuild
    \/ \E r \in Live : TimedBuildWasm(r)
    \/ \E e \in Events : \E now \in Times(last_build, MaxCliTime) :
          \E now2 \in Times(now, MaxCliTime) :
             /\ proc.watched # {}
             /\ now2 <= now + Seconds(1)
             /\ on_modified(e, now, now2)
    \/ BuildFindAppRoot
    \/ ~proc.hangs /\ BuildRunOk
    \/ ~proc.hangs /\ BuildRunFail
    \/ BuildArtifact
    \/ BuildCopy
    \/ BuildCopyFail

\* Every thread and the command's own process keep running.
SpecTimeout == InitTimeout /\ [][NextTimeout]_vars /\ WF_vars(NextTimeout)

\* C28: every invocation of the build command ends: the one-shot build command
\* exits, and in the dev loop, once no more events arrive, no thread is left in
\* build_wasm, building is false and build_queued is false.
C28_BuildsEnd ==
    <>[](IF proc.cmd = "build"
           THEN proc.exit # <<>>
           ELSE \/ proc.exit # <<>>
                \/ Live = {} /\ ~building /\ ~build_queued)

\* The cycle of thread r ends here without reaching the copy step.
ShortCircuits(r) ==
    \/ CmdFail(r)
    \/ Exists111(r) /\ wasm_src = Missing

\* C29: a cycle whose command fails or times out, or whose artifact is missing, goes
\* straight to the finally clause with the served artifact and the build output
\* unchanged; the served artifact is written only by the copy step of a cycle whose
\* command exited 0 and whose artifact was found.
C29_ShortCircuit ==
    [][/\ \A r \in Live :
             ShortCircuits(r) =>
                /\ \E r2 \in DOMAIN threads' : r2.pc = "l134" /\ ~r2.ret /\ Goto(r, r2)
                /\ UNCHANGED <<fsVars, copied>>
       /\ wasm_file' # wasm_file =>
             \E r \in Live : /\ CopyOpen(r) \/ CopyWrite(r)
                             /\ r.stage = "found"]_vars
\* A cycle found no artifact and is in its finally clause; the served directory
\* still holds the artifact of an earlier run and nothing has been copied.
C29_Witness ==
    /\ wasm_file \in Contents
    /\ copied = {}
    /\ \E r \in Live : r.pc = "l134" /\ ~r.ret /\ r.stage = "exit0"

\* C30: for every event, at the clock readings of the step, a step is a step of
\* on_created exactly when it is a step of on_modified, so the two handlers accept the
\* same events and have the same effect on last_build and on the threads; a step of
\* either handler on a directory event changes neither last_build nor the threads nor
\* any field of the server.
C30_CreatedAsModified ==
    [][\A e \in EventsWatch :
          LET now == IF AcceptedNow THEN burst'.last_accept ELSE burst'.clock
              now2 == burst'.clock
          IN  /\ on_created(e, now, now2) <=> on_modified(e, now, now2)
              /\ e.is_directory /\ (on_created(e, now, now2) \/ on_modified(e, now, now2)) =>
                    UNCHANGED <<last_build, threads, coordVars, fsVars>>]_vars
\* After an accepted event for a source file, an event that is not for a source
\* file (a directory among them) was delivered later and rejected.
C30_Witness ==
    /\ burst.on
    /\ burst.firstAccepted
    /\ burst.n = 1
    /\ burst.clock > last_build
    /\ BagCardinality(threads) = 1

\* C31: an event for a .swift file under the root scheduled as <app root>/../../Sources,
\* delivered while the debounce gate is open, starts a build.
C31_FrameworkSourcesWatched ==
    [][LET e == Event(PathParentRoot, FALSE)
           now == IF AcceptedNow THEN burst'.last_accept ELSE burst'.clock
       IN  (on_modified(e, now, burst'.clock) \/ on_created(e, now, burst'.clock))
              /\ now - last_build >= Seconds(debounce_seconds)
              => StartsBuild]_vars

\* ------------------------------------------------- the watcher and its builds
\* The watcher's events on source files, its clock read every ClockStepMs, together
\* with the statements of the build threads it starts.
EventsSettle == {Event(PathMain, FALSE), Event(SourceFile("N"), FALSE)}
NextSettle ==
    \/ \E e \in EventsSettle : \E now \in WatchTimes(0) : \E now2 \in WatchTimes(now) :
          /\ Deliverable(e, now)
          /\ now2 <= now + ClockStepMs
          /\ on_modified(e, now, now2)
    \/ \E e \in EventsSettle : \E now \in WatchTimes(0) : \E now2 \in WatchTimes(now) :
          /\ Deliverable(e, now)
          /\ now2 <= now + ClockStepMs
          /\ on_created(e, now, now2)
    \/ \E r \in Live : build_wasm(r)

SpecSettle == InitWatch /\ [][NextSettle]_vars

\* This step delivers an event for a source file.
SourceEventNow == burst'.n # burst.n \/ burst'.t0 # burst.t0
\* A build command is still to start: a thread is before line 80, or a follow-up is owed.
BuildToStart ==
    \/ \E r \in Live : r.pc \in {"l76", "l77", "l80"}
    \/ FollowUpPending

\* C32: whenever an event for a source file is delivered, a build command starts at
\* or after it: the event is accepted, or a build is still to start.
C32_BuildAfterLastEvent ==
    [][SourceEventNow => AcceptedNow \/ BuildToStart]_vars

\* C33: while a cycle has copied its artifact and has not yet stored the new
\* fingerprint, the status endpoint reports building = true; a cycle clears the flag
\* only after its store.
C33_StoreBeforeClear ==
    \A r \in Live : (r.stage = "copied" /\ r.pc \in {"l118", "l124"}) => status.building

\* C34: when no build cycle is in flight and a fingerprint is stored, the fingerprint
\* is the digest of the served artifact as it is.
C34_FingerprintMatchesServed ==
    (~InCycle /\ last_wasm_hash # None) => last_wasm_hash = get_wasm_hash

\* C35: no step of a build, of the watcher or of a status query takes last_wasm_hash
\* from a fingerprint back to None, and the fingerprint is None as long as no cycle
\* has stored one.
C35_NeverNullAgain ==
    [][/\ last_wasm_hash # None => last_wasm_hash' # None
       /\ stored => last_wasm_hash' # None
       /\ \A r \in Live : Store124(r) => r.new_hash # None]_vars
\* A fingerprint is stored, a second build has failed and is past its finally
\* clause, and the page has queried the status.
C35_Witness ==
    /\ last_wasm_hash # None
    /\ builds = 2
    /\ polled
    /\ \E r \in Live : r.pc = "l136" /\ ~r.ret

\* C36: build_queued is set only while a build cycle is in flight, or while its
\* finishing thread is about to start the follow-up, or while the follow-up thread
\* has not yet begun.
C36_QueuedImpliesPending ==
    build_queued =>
        \/ InCycle
        \/ NumAt({"l136", "l137", "l139"}) > 0
        \/ \E r \in Live : r.kind = "queued" /\ r.pc = "l76"

\* -------------------------------------------------------- inject_hot_reload
\* A document is a sequence of pieces of text; the pieces that matter to the
\* injection are the closing body tag and the text raven-hot-reload.
bodyClose == "</body>"
hotReloadId == "raven-hot-reload"
Pieces == {"<p>", "<body>", bodyClose, hotReloadId}
\* lines 189-214: the script element, which carries the id
script == <<"<script id=", hotReloadId, ">(function(){})();</script>">>
\* index.html: present or not, and its text
Html(exists, content) == [exists |-> exists, content |-> content]
Docs == UNION {[1..n -> Pieces] : n \in 0..MaxDocLen}
HtmlFiles == {Html(FALSE, <<>>)} \cup {Html(TRUE, content) : content \in Docs}

\* str.replace(old, new): every occurrence of the piece old becomes new
RECURSIVE replace(_, _, _)
replace(content, old, new) ==
    IF content = <<>> THEN <<>>
    ELSE (IF Head(content) = old THEN new ELSE <<Head(content)>>) \o replace(Tail(content), old, new)

\* inject_hot_reload (raven_dev.py 180-219; TodoApp raven-dev.py 226-274)
inject_hot_reload(html) ==
    IF ~html.exists THEN html
    ELSE IF Contains(html.content, <<hotReloadId>>) THEN html
    ELSE IF Contains(html.content, <<bodyClose>>)
      THEN [html EXCEPT !.content = replace(@, bodyClose, script \o <<"\n", bodyClose>>)]
    ELSE html

\* The public directory as a developer left it, before the first start of the server.
InitInject ==
    /\ InitState(FALSE)
    /\ wasm_file = Missing
    /\ threads = EmptyBag
    /\ serverUp = FALSE
    /\ initial = "pending"
    /\ \E html \in HtmlFiles :
          proc = Proc("dev", "inject", Env(TRUE, TRUE, TRUE, source_dirs, FALSE))
                    @@ [html |-> html, original |-> html, starts |-> 0]

\* dev_command line 250: inject_hot_reload(public_dir / 'index.html'), at each start
Inject ==
    /\ proc.pc = "inject"
    /\ proc.starts < MaxStarts
    /\ proc' = [proc EXCEPT !.html = inject_hot_reload(@), !.starts = @ + 1]
    /\ UNCHANGED <<serverUp, initial>>
    /\ OnlyProc

NextInject == Inject

SpecInject == InitInject /\ [][NextInject]_vars

\* Occurrences of the script element in a text.
Scripts(content) ==
    Cardinality({i \in 1..Len(content) :
                    /\ i + Len(script) - 1 <= Len(content)
                    /\ SubSeq(content, i, i + Len(script) - 1) = script})

\* C37: after inject_hot_reload the document contains the script element at most
\* once and a further run leaves it unchanged; a missing file, and a document
\* without a closing body tag, are as they were.
C37_InjectOnce ==
    ("starts" \in DOMAIN proc /\ proc.starts >= 1) =>
        /\ Scripts(proc.html.content) <= 1
        /\ inject_hot_reload(proc.html) = proc.html
        /\ (~proc.original.exists \/ ~Contains(proc.original.content, <<bodyClose>>))
              => proc.html = proc.original
====
